---- MODULE Spec2Model ----
(***************************************************************************)
(* Model of scrambler.py, the pane alias seed generator: generate_seed,    *)
(* generate_seeds and main.  One behaviour is one run of main with the     *)
(* command line (--count, --export) fixed in the initial state.            *)
(*                                                                         *)
(* Strings are TLA+ strings and f"{adj}-{noun}" is string concatenation.   *)
(* The word lists are the literals of the source.  The state space is kept *)
(* finite by running the generator on the first NumAdj adjectives and the  *)
(* first NumNoun nouns; statements about the sizes of the full lists are   *)
(* evaluated on the full literals.                                         *)
(***************************************************************************)
EXTENDS Integers, Sequences, FiniteSets, TLC

(* ---- bounds of the model ---- *)
NumAdj == 2
NumNoun == 1
MaxNeg == 1
MaxOver == 1
MaxDraws == 4

(* ---- word lists, scrambler.py lines 31-55 ---- *)
ADJECTIVES == <<
    "amber", "arctic", "aspen", "birch", "blaze", "bolt", "cedar", "chalk",
    "cinder", "cobalt", "copper", "coral", "crimson", "dawn", "delta", "dusk",
    "echo", "ember", "fern", "flint", "forge", "frost", "glint", "grove",
    "hazel", "heather", "hollow", "indigo", "inlet", "ivory", "jade",
    "jasper", "kestrel", "larch", "laurel", "linen", "lunar", "maple",
    "marsh", "mist", "navy", "nimbus", "ochre", "opal", "orbit", "otter",
    "petal", "pine", "prism", "quartz", "raven", "ridge", "river", "rowan",
    "runic", "sable", "sage", "salt", "sand", "scout", "shale", "slate",
    "smoke", "solar", "sparrow", "spruce", "starling", "storm", "summit",
    "swift", "tallow", "teal", "thistle", "timber", "trace", "tundra", "vale",
    "vault", "veldt", "wick", "willow", "wren", "zephyr", "zenith"
>>

NOUNS == <<
    "anvil", "arch", "basin", "beacon", "bridge", "brook", "cable", "cairn",
    "canal", "canopy", "cast", "chord", "circuit", "cistern", "cleft",
    "crest", "current", "depth", "dial", "drift", "dune", "echo", "edge",
    "ember", "falls", "field", "flare", "frame", "gate", "glade", "gorge",
    "grid", "gully", "haven", "hearth", "helm", "hollow", "kelp", "knot",
    "latch", "ledge", "lens", "lever", "light", "line", "link", "loch",
    "lock", "loop", "lore", "mark", "mast", "meld", "mesh", "mill", "moor",
    "node", "notch", "orbit", "pass", "patch", "peak", "pier", "pillar",
    "pitch", "plain", "plank", "pool", "port", "post", "press", "range",
    "rapid", "reach", "reef", "relay", "ridge", "rift", "rivet", "root",
    "route", "rune", "seal", "shaft", "shore", "sill", "sluice", "span",
    "spoke", "stack", "stake", "stave", "stern", "strand", "strut", "surge",
    "sweep", "tide", "tine", "torch", "track", "trail", "vault", "vein",
    "weir", "well", "wharf"
>>

Min(a, b) == IF a < b THEN a ELSE b

Max(a, b) == IF a < b THEN b ELSE a

VARIABLES
    adjectives,  \* the list object ADJECTIVES at run time
    nouns,       \* the list object NOUNS at run time
    count,       \* args.count
    export,      \* args.export
    pc,          \* position of main: "main", "loop", "print", "export", "done"
    seeds,       \* the local set seeds of generate_seeds
    last,        \* value returned by the latest generate_seed call, <<>> if none
    draws,       \* number of generate_seed calls so far, saturating at MaxDraws
    result,      \* list returned by generate_seeds, bound to seeds in main
    console,     \* SEED column of the table rows printed so far, in order
    reported,    \* the number in the "N seeds generated" line, -1 before it
    file         \* alias-seeds.txt: [exists, text]

vars == <<adjectives, nouns, count, export, pc, seeds, last, draws, result,
          console, reported, file>>

(* ---- generate_seed, lines 57-62 ---- *)

\* bug variant: the separator is forgotten
generate_seed_nosep(adj, noun) == adj \o noun

\* bug variant: the adjective is used twice
generate_seed_adj_twice(adj, noun) == adj \o "-" \o adj

\* f"{adj}-{noun}" for the two words rng.choice picked
generate_seed(adj, noun) == adj \o "-" \o noun

\* every string generate_seed can return for the given pools
SeedSpace(A, N) == {generate_seed(A[i], N[j]) : i \in DOMAIN A, j \in DOMAIN N}

\* the seed space of the full word lists of the source
FullSeedSpace == SeedSpace(ADJECTIVES, NOUNS)

TotalPairs == Len(adjectives) * Len(nouns)

(* ---- generate_seeds, lines 64-69 ---- *)

\* bug variant: the loop stops one seed early
LoopCondShort(s, c) == Cardinality(s) < c - 1

\* bug variant: <= instead of <
LoopCondLE(s, c) == Cardinality(s) <= c

\* len(seeds) < count
LoopCond(s, c) == Cardinality(s) < c

RECURSIVE Perms(_)
\* every list sorted(seeds, key=lambda x: random.random()) can produce
Perms(S) ==
    IF S = {} THEN {<<>>}
    ELSE UNION {{<<x>> \o p : p \in Perms(S \ {x})} : x \in S}

\* bug variant: [:count - 1]
SliceShort(lst, n) == SubSeq(lst, 1, Max(0, Min(Len(lst), n - 1)))

\* Python lst[:n]: the first n elements, or all but the last -n when n < 0
Slice(lst, n) ==
    IF n >= 0 THEN SubSeq(lst, 1, Min(n, Len(lst)))
    ELSE SubSeq(lst, 1, Max(Len(lst) + n, 0))

(* ---- text of the export file, line 93 ---- *)
\* A text is a sequence of pieces, each a seed or the newline "\n"; a seed
\* holds no newline (the words are alphabetic).

NL == "\n"

RECURSIVE JoinLines(_)
\* "\n".join(lst)
JoinLines(lst) ==
    IF lst = <<>> THEN <<>>
    ELSE IF Len(lst) = 1 THEN <<lst[1]>>
    ELSE <<lst[1], NL>> \o JoinLines(Tail(lst))

\* "\n".join(seeds) + "\n"
FileText(lst) == JoinLines(lst) \o <<NL>>

(* ---- the run ---- *)

Counts == (0 - MaxNeg)..(NumAdj * NumNoun + MaxOver)

Init ==
    /\ adjectives = SubSeq(ADJECTIVES, 1, NumAdj)
    /\ nouns = SubSeq(NOUNS, 1, NumNoun)
    /\ count \in Counts
    /\ export \in BOOLEAN
    /\ pc = "main"
    /\ seeds = {}
    /\ last = <<>>
    /\ draws = 0
    /\ result = <<>>
    /\ console = <<>>
    /\ reported = -1
    /\ file = [exists |-> FALSE, text |-> <<>>]

\* main line 77 calls generate_seeds; lines 65-66
CallGenerateSeeds ==
    /\ pc = "main"
    /\ pc' = "loop"
    /\ seeds' = {}
    /\ UNCHANGED <<adjectives, nouns, count, export, last, draws, result,
                   console, reported, file>>

\* bug variant: the chosen adjective is taken out of the pool
DrawPop(i, j) ==
    /\ pc = "loop"
    /\ LoopCond(seeds, count)
    /\ i \in DOMAIN adjectives
    /\ j \in DOMAIN nouns
    /\ last' = <<generate_seed(adjectives[i], nouns[j])>>
    /\ seeds' = seeds \cup {generate_seed(adjectives[i], nouns[j])}
    /\ draws' = Min(draws + 1, MaxDraws)
    /\ adjectives' = [k \in 1..(Len(adjectives) - 1) |->
                        IF k < i THEN adjectives[k] ELSE adjectives[k + 1]]
    /\ UNCHANGED <<nouns, count, export, pc, result, console, reported, file>>

\* one iteration of the while loop, lines 67-68, rng.choice picking
\* ADJECTIVES[i] and NOUNS[j]
Draw(i, j) ==
    /\ pc = "loop"
    /\ LoopCond(seeds, count)
    /\ i \in DOMAIN adjectives
    /\ j \in DOMAIN nouns
    /\ last' = <<generate_seed(adjectives[i], nouns[j])>>
    /\ seeds' = seeds \cup {generate_seed(adjectives[i], nouns[j])}
    /\ draws' = Min(draws + 1, MaxDraws)
    /\ UNCHANGED <<adjectives, nouns, count, export, pc, result, console,
                   reported, file>>

\* loop exit and line 69; the locals of generate_seeds go out of scope
Return ==
    /\ pc = "loop"
    /\ ~LoopCond(seeds, count)
    /\ \E p \in Perms(seeds) : result' = Slice(p, count)
    /\ pc' = "print"
    /\ last' = <<>>
    /\ UNCHANGED <<adjectives, nouns, count, export, seeds, draws, console,
                   reported, file>>

\* lines 79-89: the table, one row per seed in list order, and the summary
PrintTable ==
    /\ pc = "print"
    /\ console' = result
    /\ reported' = Len(result)
    /\ pc' = IF export THEN "export" ELSE "done"
    /\ UNCHANGED <<adjectives, nouns, count, export, seeds, last, draws,
                   result, file>>

\* lines 91-95
Export ==
    /\ pc = "export"
    /\ file' = [exists |-> TRUE, text |-> FileText(result)]
    /\ pc' = "done"
    /\ UNCHANGED <<adjectives, nouns, count, export, seeds, last, draws,
                   result, console, reported>>

Next ==
    \/ CallGenerateSeeds
    \/ \E i \in 1..NumAdj, j \in 1..NumNoun : Draw(i, j)
    \/ Return
    \/ PrintTable
    \/ Export

Spec == Init /\ [][Next]_vars

\* the process keeps running and the random source is fair: every pair is
\* drawn again and again while the loop runs
FairSpec ==
    /\ Spec
    /\ WF_vars(Next)
    /\ \A i \in 1..NumAdj, j \in 1..NumNoun : WF_vars(Draw(i, j))

\* the process keeps running, nothing is assumed of the random source
ProgressSpec == Spec /\ WF_vars(Next)

(* ---- properties ---- *)

Range(f) == {f[i] : i \in DOMAIN f}

\* generate_seeds has returned to main
Returned == pc \in {"print", "export", "done"}

RECURSIVE SplitLines(_, _)
\* the lines of a text, split at the newlines; cur is the line read so far
SplitLines(text, cur) ==
    IF text = <<>> THEN <<cur>>
    ELSE IF Head(text) = NL THEN <<cur>> \o SplitLines(Tail(text), "")
    ELSE SplitLines(Tail(text), cur \o Head(text))

NonEmptyLines(text) == SelectSeq(SplitLines(text, ""), LAMBDA l : l # "")

NoDuplicates(lst) ==
    \A i, j \in DOMAIN lst : i # j => lst[i] # lst[j]

\* s is <adjective>-<noun> with both words taken from the pools
SeedPattern(s) ==
    \E a \in Range(adjectives), n \in Range(nouns) : s = a \o "-" \o n

\* C1: for 0 <= count <= |ADJECTIVES| * |NOUNS|, the list generate_seeds
\* returns has exactly count elements and no two of them are equal,
\* whatever was drawn.
C1_ExactCountDistinct ==
    (Returned /\ 0 <= count /\ count <= TotalPairs)
        => (Len(result) = count /\ NoDuplicates(result))

\* a non-empty batch returned after at least one seed was drawn again
C1_Witness ==
    Returned /\ count >= 1 /\ count <= TotalPairs /\ draws > count
        /\ Len(result) = count

\* C2: with count > |ADJECTIVES| * |NOUNS| generate_seeds fails instead of
\* hanging: no execution stays in the draw loop forever.
C2_FailsInsteadOfHanging ==
    (pc = "loop" /\ count > TotalPairs) ~> (pc # "loop")

\* C3: a negative count is rejected up front: generate_seeds never returns
\* a seed list for it.
C3_NegativeRejected == count < 0 => ~Returned

\* C4: every seed generate_seed returns, every seed in the collected set
\* and every element of the returned list is a + "-" + n with a in
\* ADJECTIVES and n in NOUNS.
C4_SeedsMatchPattern ==
    /\ \A s \in Range(last) : SeedPattern(s)
    /\ \A s \in seeds : SeedPattern(s)
    /\ \A s \in Range(result) : SeedPattern(s)

\* every pair of the pools was drawn and the batch was returned
C4_Witness ==
    Returned /\ Cardinality(seeds) = TotalPairs /\ Len(result) = TotalPairs

\* C5: with --export, alias-seeds.txt holds exactly count non-empty lines,
\* each a seed of the batch, equal in content and order to the seeds
\* printed; the file is written only after the batch is generated.
C5_ExportRoundTrip ==
    /\ file.exists => pc = "done"
    /\ (pc = "done" /\ export) =>
          /\ file.exists
          /\ Len(NonEmptyLines(file.text)) = count
          /\ NonEmptyLines(file.text) = console
          /\ \A l \in Range(NonEmptyLines(file.text)) : l \in Range(result)

\* C6: generate_seeds(0) returns the empty list and calls generate_seed
\* zero times.
C6_ZeroCountNoDraws ==
    (count = 0 /\ pc # "main") =>
        /\ draws = 0
        /\ last = <<>>
        /\ seeds = {}
        /\ Returned => result = <<>>

\* the run with count 0 has finished
C6_Witness == count = 0 /\ pc = "done" /\ result = <<>>

\* C7 as stated: generate_seed can return exactly |ADJECTIVES| * |NOUNS|
\* distinct seeds, and for the program's lists this is 86 * 110 = 9460.
C7_Original ==
    /\ Cardinality(SeedSpace(adjectives, nouns)) = TotalPairs
    /\ Cardinality(FullSeedSpace) = Len(ADJECTIVES) * Len(NOUNS)
    /\ Len(ADJECTIVES) = 86
    /\ Len(NOUNS) = 110
    /\ Cardinality(FullSeedSpace) = 9460

\* C7 amended: generate_seed can return exactly |ADJECTIVES| * |NOUNS|
\* distinct seeds (no list holds a word twice and distinct pairs join to
\* distinct strings), and for the program's lists this is 84 * 107 = 8988.
C7_SeedSpaceSize ==
    /\ Cardinality(Range(ADJECTIVES)) = Len(ADJECTIVES)
    /\ Cardinality(Range(NOUNS)) = Len(NOUNS)
    /\ Cardinality(FullSeedSpace) = Len(ADJECTIVES) * Len(NOUNS)
    /\ Len(ADJECTIVES) = 84
    /\ Len(NOUNS) = 107
    /\ Cardinality(FullSeedSpace) = 8988
    /\ Cardinality(SeedSpace(adjectives, nouns)) = TotalPairs

\* the loop has collected one seed for every pair of the pools
C7_Witness ==
    pc = "loop" /\ seeds = SeedSpace(adjectives, nouns)
        /\ Cardinality(seeds) = NumAdj * NumNoun

\* C8: no operation changes the word pools: at every point of the run
\* ADJECTIVES and NOUNS have the contents, order and size they started with.
C8_PoolsUnchanged ==
    /\ adjectives = SubSeq(ADJECTIVES, 1, NumAdj)
    /\ nouns = SubSeq(NOUNS, 1, NumNoun)

\* the run has finished after several generate_seed calls
C8_Witness == pc = "done" /\ draws >= 2 /\ Len(adjectives) = NumAdj

\* C9: for 0 <= count <= |ADJECTIVES| * |NOUNS|, generate_seeds eventually
\* returns when the random source is fair.
C9_EventuallyReturns ==
    (pc = "loop" /\ 0 <= count /\ count <= TotalPairs) ~> Returned

\* the whole seed space was asked for and returned after a repeated draw
C9_Witness ==
    pc = "print" /\ count = TotalPairs /\ seeds = SeedSpace(adjectives, nouns)
        /\ draws > 1

\* the same statement, for checking under ProgressSpec, where nothing is
\* assumed of the random source: there it fails by a run that draws
\* collected seeds again and again
C9_NeedsFairness == C9_EventuallyReturns

C10_LoopInv ==
    count >= 0 =>
        /\ Cardinality(seeds) <= count
        /\ Returned =>
              /\ Cardinality(seeds) = count
              /\ Len(result) = Cardinality(seeds)
              /\ Range(result) = seeds

C10_Step ==
    /\ seeds \subseteq seeds'
    /\ Cardinality(seeds') <= Cardinality(seeds) + 1

\* C10: for count >= 0 the collected set grows by at most one seed per
\* iteration and never shrinks, its size never exceeds count, at loop exit
\* its size is count, the truncation drops nothing and the returned list
\* is a permutation of the collected set.
C10_LoopInvariant == [](C10_LoopInv) /\ [][C10_Step]_vars

\* a batch of at least two seeds was returned
C10_Witness ==
    Returned /\ count >= 2 /\ Cardinality(seeds) = count
        /\ Range(result) = seeds

====
